---- MODULE Spec2Model ----
(***************************************************************************)
(* Request dispatch core of the smithy-rs server runtime: the URI pattern  *)
(* data model, the path matcher compiled from a PathSpec, the three-way    *)
(* verdict of RequestSpec::matches, and the Router's dispatch over its     *)
(* route table.                                                            *)
(*                                                                         *)
(* Strings are sequences of one-character strings, so that compiling a     *)
(* pattern, matching a path and parsing a query string are computed        *)
(* character by character as the code and its libraries compute them.      *)
(***************************************************************************)
EXTENDS Integers, Sequences, FiniteSets, TLC

VARIABLES
    phase,      \* "build" while routes are added, "serving" once traffic starts
    routes,     \* Router.routes: HashMap<RouteId, Route>
    iter,       \* the order in which routes.iter() yields the RouteIds
    fallback,   \* Router.fallback
    next_id,    \* the static ID counter of RouteId::next
    disp,       \* per request-handling task: the state of its dispatch
    mspec,      \* the RequestSpec under evaluation (matches' self)
    mreq,       \* the request handed to RequestSpec::matches
    mres,       \* the Match returned, "pending" before the call
    ppat,       \* the pattern text handed to PathAndQuerySpec::parse
    pres,       \* what parse returned, ParsePending before the call
    cpath,      \* the PathSpec handed to RequestSpec::new
    cres,       \* how RequestSpec::new ended, "pending" before the call
    builders    \* per building thread: its own Router and its route call

rvars == <<phase, routes, iter, fallback, next_id, disp>>
mvars == <<mspec, mreq, mres>>
pvars == <<ppat, pres>>
cvars == <<cpath, cres>>
bvars == <<builders>>
vars ==
    <<phase, routes, iter, fallback, next_id, disp, mspec, mreq, mres, ppat, pres,
      cpath, cres, builders>>

----------------------------------------------------------------------------
(* Bounds of the model *)

\* longest request path, in characters, of the path-matcher specification
MaxPathLen == 5
\* most PathSegments in a PathSpec of the path-matcher specification
MaxSegs == 3
\* longest request path, in characters, of the matches specification
MaxMatchPathLen == 2
\* most PathSegments in a PathSpec of the matches specification
MaxMatchSegs == 1
\* most QuerySegments in a QuerySpec
MaxQuerySegs == 2
\* most Routes added to the Router in the build phase
MaxRoutes == 2

----------------------------------------------------------------------------
(* Text helpers *)

SeqsUpTo(S, n) == UNION {[1..k -> S] : k \in 0..n}

RECURSIVE IndexFrom(_, _, _)
\* position of the first c in s at or after i; Len(s)+1 if there is none
IndexFrom(s, c, i) ==
    IF i > Len(s) THEN Len(s) + 1
    ELSE IF s[i] = c THEN i
    ELSE IndexFrom(s, c, i + 1)

RECURSIVE SplitOn(_, _)
\* str::split: the pieces of s between occurrences of c (empty pieces kept)
SplitOn(s, c) ==
    LET j == IndexFrom(s, c, 1)
    IN  IF j > Len(s) THEN <<s>>
        ELSE <<SubSeq(s, 1, j - 1)>> \o SplitOn(SubSeq(s, j + 1, Len(s)), c)

\* s with x put in at position k (1 <= k <= Len(s) + 1)
InsertAt(s, k, x) == SubSeq(s, 1, k - 1) \o <<x>> \o SubSeq(s, k, Len(s))

----------------------------------------------------------------------------
(* Data model: request_spec.rs *)

Literal(t) == [kind |-> "Literal", text |-> t]
Label == [kind |-> "Label", text |-> <<>>]
Greedy == [kind |-> "Greedy", text |-> <<>>]

Key(k) == [kind |-> "Key", key |-> k, value |-> <<>>]
KeyValue(k, v) == [kind |-> "KeyValue", key |-> k, value |-> v]

\* Option<Vec<HostPrefixSegment>>::None
NoHostPrefix == <<"None">>
\* Option<Vec<HostPrefixSegment>>::Some(segments)
SomeHostPrefix(segments) == <<"Some", segments>>
\* HostPrefixSegment
HostLiteral(t) == [kind |-> "Literal", text |-> t]
HostLabel == [kind |-> "Label", text |-> <<>>]

\* Option<&str>: the request's query string
NoQuery == [present |-> FALSE, text |-> <<>>]
SomeQuery(t) == [present |-> TRUE, text |-> t]

Request(m, p, q) == [method |-> m, path |-> p, query |-> q]

----------------------------------------------------------------------------
(* Path matcher: impl From<&PathSpec> for Regex, and the regex engine on   *)
(* the patterns that conversion can produce.                               *)

\* SegmentPattern with a Label that may hold nothing
SegmentPatternMutLabelStar(seg) ==
    CASE seg.kind = "Literal" -> seg.text
      [] seg.kind = "Label" -> <<"[", "^", "/", "]", "*">>
      [] seg.kind = "Greedy" -> <<".", "*">>

\* SegmentPattern with a Greedy that holds one component only
SegmentPatternMutGreedyOne(seg) ==
    CASE seg.kind = "Literal" -> seg.text
      [] seg.kind = "Label" -> <<"[", "^", "/", "]", "+">>
      [] seg.kind = "Greedy" -> <<"[", "^", "/", "]", "+">>

\* the pattern text a PathSegment contributes
SegmentPattern(seg) ==
    CASE seg.kind = "Literal" -> seg.text
      [] seg.kind = "Label" -> <<"[", "^", "/", "]", "+">>
      [] seg.kind = "Greedy" -> <<".", "*">>

RECURSIVE FoldSegments(_, _)
\* .fold(String::new(), |a, b| a + sep + b) with sep = "/+"
FoldSegments(acc, segs) ==
    IF segs = <<>> THEN acc
    ELSE FoldSegments(acc \o <<"/", "+">> \o SegmentPattern(Head(segs)), Tail(segs))

\* the conversion if the empty PathSpec compiled to a matcher of paths that
\* end in the root slash
RegexFromPathSpecMutRoot(path_segments) ==
    IF path_segments = <<>> THEN <<"/", "$">>
    ELSE FoldSegments(<<>>, path_segments) \o <<"$">>

\* Regex::new(&format!("{}$", re)): the pattern text of the compiled matcher
RegexFromPathSpec(path_segments) == FoldSegments(<<>>, path_segments) \o <<"$">>

RECURSIVE RegexScanFails(_, _, _, _)
\* Regex::new returns Err on a pattern whose groups or character classes do
\* not close: a `)` with no group open, a `(` or a `[` still open at the end
RegexScanFails(p, i, depth, in_class) ==
    IF i > Len(p) THEN depth # 0 \/ in_class
    ELSE IF in_class THEN RegexScanFails(p, i + 1, depth, p[i] # "]")
    ELSE IF p[i] = "[" THEN RegexScanFails(p, i + 1, depth, TRUE)
    ELSE IF p[i] = "(" THEN RegexScanFails(p, i + 1, depth + 1, FALSE)
    ELSE IF p[i] = ")" THEN depth = 0 \/ RegexScanFails(p, i + 1, depth - 1, FALSE)
    ELSE RegexScanFails(p, i + 1, depth, FALSE)

RegexCompileFails(pattern) == RegexScanFails(pattern, 1, 0, FALSE)

\* one parsed regex item: a character class and its repetition
Item(cls, c, q) == [cls |-> cls, chr |-> c, rep |-> q]

RECURSIVE ParseRegex(_, _)
\* the regex syntax reachable from the patterns above: `[^/]`, `.`, `$`, a
\* plain character, each optionally followed by `+` or `*`
ParseRegex(p, i) ==
    IF i > Len(p) THEN <<>>
    ELSE
        LET isClass == /\ p[i] = "["
                       /\ i + 3 <= Len(p)
                       /\ p[i + 1] = "^" /\ p[i + 2] = "/" /\ p[i + 3] = "]"
            width == IF isClass THEN 4 ELSE 1
            cls == IF isClass THEN "notslash"
                   ELSE IF p[i] = "." THEN "any"
                   ELSE IF p[i] = "$" THEN "end"
                   ELSE "chr"
            j == i + width
            rep == IF j <= Len(p) /\ p[j] \in {"+", "*"} THEN p[j] ELSE "1"
            next == IF rep = "1" THEN j ELSE j + 1
        IN  <<Item(cls, p[i], rep)>> \o ParseRegex(p, next)

InClass(it, c) ==
    CASE it.cls = "notslash" -> c # "/"
      [] it.cls = "any" -> TRUE
      [] it.cls = "chr" -> c = it.chr
      [] it.cls = "end" -> FALSE

RECURSIVE MatchFrom(_, _, _, _)
\* can items[i..] match a stretch of s that starts at position p
MatchFrom(items, i, s, p) ==
    IF i > Len(items) THEN TRUE
    ELSE
        LET it == items[i]
            lo == IF it.rep = "*" THEN 0 ELSE 1
            hi == IF it.rep = "1" THEN 1 ELSE Len(s) - p + 1
        IN  IF it.cls = "end"
            THEN p = Len(s) + 1 /\ MatchFrom(items, i + 1, s, p)
            ELSE \E n \in lo..hi :
                    /\ p + n - 1 <= Len(s)
                    /\ \A k \in p..(p + n - 1) : InClass(it, s[k])
                    /\ MatchFrom(items, i + 1, s, p + n)

\* Regex::is_match: is there a match anywhere in s; the pattern carries no
\* `^`, so the match may start at any position
IsMatch(pattern, s) ==
    \E start \in 1..(Len(s) + 1) : MatchFrom(ParseRegex(pattern, 1), 1, s, start)

----------------------------------------------------------------------------
(* Query strings: serde_urlencoded::from_str::<HashMap<&str, &str>>        *)

HexDigits ==
    {"0", "1", "2", "3", "4", "5", "6", "7", "8", "9",
     "a", "b", "c", "d", "e", "f", "A", "B", "C", "D", "E", "F"}

\* form_urlencoded has to decode a `+` and a `%XX` escape: the piece becomes
\* an owned string, which cannot be deserialized into a borrowed &str
NeedsDecoding(text, k) ==
    \/ text[k] = "+"
    \/ /\ text[k] = "%"
       /\ k + 2 <= Len(text)
       /\ text[k + 1] \in HexDigits
       /\ text[k + 2] \in HexDigits

\* one `name=value` piece: split at the first `=`, value empty without one
PairOf(piece) ==
    LET j == IndexFrom(piece, "=", 1)
    IN  [name |-> SubSeq(piece, 1, j - 1), value |-> SubSeq(piece, j + 1, Len(piece))]

\* the pairs of a query string in order: split on `&`, empty pieces skipped
QueryPairs(text) ==
    LET pieces == SelectSeq(SplitOn(text, "&"), LAMBDA x : x # <<>>)
    IN  [j \in 1..Len(pieces) |-> PairOf(pieces[j])]

\* collecting into a HashMap: a repeated key keeps its last value
MapOfPairs(pairs) ==
    [n \in {pairs[j].name : j \in 1..Len(pairs)} |->
        LET last == CHOOSE j \in 1..Len(pairs) :
                        /\ pairs[j].name = n
                        /\ \A k \in (j + 1)..Len(pairs) : pairs[k].name # n
        IN  pairs[last].value]

ParseQuery(text) ==
    IF \E k \in 1..Len(text) : NeedsDecoding(text, k)
    THEN [ok |-> FALSE, map |-> <<>>]
    ELSE [ok |-> TRUE, map |-> MapOfPairs(QueryPairs(text))]

----------------------------------------------------------------------------
(* RequestSpec: request_spec.rs *)

\* RequestSpec::new: the path matcher is compiled here, once
NewRequestSpec(method, host_prefix, path_segments, query_segments) ==
    [method |-> method,
     host_prefix |-> host_prefix,
     path_segments |-> path_segments,
     query_segments |-> query_segments,
     uri_path_regex |-> RegexFromPathSpec(path_segments)]

\* always_get with a matcher for the root path only
AlwaysGetMutRootOnly ==
    [method |-> "GET",
     host_prefix |-> NoHostPrefix,
     path_segments |-> <<>>,
     query_segments |-> <<>>,
     uri_path_regex |-> <<"/", "$">>]

\* RequestSpec::always_get
AlwaysGet ==
    [method |-> "GET",
     host_prefix |-> NoHostPrefix,
     path_segments |-> <<>>,
     query_segments |-> <<>>,
     uri_path_regex |-> <<".", "*">>]

\* the final method comparison of matches
MethodVerdict(spec, req) ==
    IF spec.method = req.method THEN "Yes" ELSE "MethodNotAllowed"

RECURSIVE CheckQuerySegmentsMutPresence(_, _, _, _)
\* the loop if a KeyValue segment asked for the key's presence only
CheckQuerySegmentsMutPresence(spec, req, query_map, i) ==
    IF i > Len(spec.query_segments) THEN MethodVerdict(spec, req)
    ELSE IF spec.query_segments[i].key \notin DOMAIN query_map
         THEN "No"
         ELSE CheckQuerySegmentsMutPresence(spec, req, query_map, i + 1)

RECURSIVE CheckQuerySegments(_, _, _, _)
\* the loop of matches over the declared query segments, from segment i on
CheckQuerySegments(spec, req, query_map, i) ==
    IF i > Len(spec.query_segments) THEN MethodVerdict(spec, req)
    ELSE
        LET seg == spec.query_segments[i]
        IN  IF seg.kind = "Key"
            THEN IF seg.key \notin DOMAIN query_map
                 THEN "No"
                 ELSE CheckQuerySegments(spec, req, query_map, i + 1)
            ELSE IF seg.key \notin DOMAIN query_map
                 THEN "No"
                 ELSE IF query_map[seg.key] # seg.value
                      THEN "No"
                      ELSE CheckQuerySegments(spec, req, query_map, i + 1)

\* matches with the method compared before the query constraints
MatchesMutMethodFirst(spec, req) ==
    IF ~IsMatch(spec.uri_path_regex, req.path) THEN "No"
    ELSE IF spec.method # req.method THEN "MethodNotAllowed"
    ELSE IF spec.query_segments = <<>> THEN "Yes"
    ELSE IF ~req.query.present THEN "No"
    ELSE LET res == ParseQuery(req.query.text)
         IN  IF ~res.ok THEN "No"
             ELSE CheckQuerySegments(spec, req, res.map, 1)

\* RequestSpec::matches; "Panic" is the todo!() under a declared host prefix
Matches(spec, req) ==
    IF spec.host_prefix # NoHostPrefix THEN "Panic"
    ELSE IF ~IsMatch(spec.uri_path_regex, req.path) THEN "No"
    ELSE IF spec.query_segments = <<>> THEN MethodVerdict(spec, req)
    ELSE IF ~req.query.present THEN "No"
    ELSE LET res == ParseQuery(req.query.text)
         IN  IF ~res.ok THEN "No"
             ELSE CheckQuerySegments(spec, req, res.map, 1)

----------------------------------------------------------------------------
(* Input domains *)

Methods == {"GET", "POST"}
RequestMethods == {"GET", "POST", "DELETE"}

PathChars == {"/", "a", "b"}
LiteralTexts == {<<"a">>, <<"b">>}
PathSegments == {Literal(t) : t \in LiteralTexts} \cup {Label, Greedy}

\* http::Uri paths start with `/`
PathsUpTo(n) == {<<"/">> \o s : s \in SeqsUpTo(PathChars, n - 1)}
PathSpecsUpTo(n) == SeqsUpTo(PathSegments, n)

QuerySegments ==
    {Key(<<"k">>), KeyValue(<<"k">>, <<"v">>), KeyValue(<<"f">>, <<"o">>)}
QuerySpecs == SeqsUpTo(QuerySegments, MaxQuerySegs)

QueryTexts ==
    { <<>>,
      <<"k">>,
      <<"f">>,
      <<"k", "=">>,
      <<"k", "=", "v">>,
      <<"k", "=", "o">>,
      <<"f", "=", "o">>,
      <<"k", "=", "v", "+">>,
      <<"k", "=", "%", "f", "f">>,
      <<"k", "=", "%">>,
      <<"k", "&", "f", "=", "o">>,
      <<"k", "=", "v", "&", "f", "=", "o">>,
      <<"k", "=", "v", "&", "k", "=", "o">>,
      <<"k", "=", "o", "&", "k", "=", "v">>,
      <<"&", "k", "=", "v", "&">> }
Queries == {NoQuery} \cup {SomeQuery(t) : t \in QueryTexts}

MatchSpecs ==
    {NewRequestSpec(m, NoHostPrefix, ps, qs) :
        m \in Methods, ps \in PathSpecsUpTo(MaxMatchSegs), qs \in QuerySpecs}
MatchRequests ==
    {Request(m, p, q) :
        m \in RequestMethods, p \in PathsUpTo(MaxMatchPathLen), q \in Queries}

PathOnlySpecs ==
    {NewRequestSpec("GET", NoHostPrefix, ps, <<>>) : ps \in PathSpecsUpTo(MaxSegs)}
PathOnlyRequests ==
    {Request("GET", p, NoQuery) : p \in PathsUpTo(MaxPathLen)}

----------------------------------------------------------------------------
(* Route and the operation handlers: route.rs, operation_handler.rs,        *)
(* handler/mod.rs, responders.rs                                           *)

StatusOk == 200
StatusBadRequest == 400
StatusNotFound == 404
StatusMethodNotAllowed == 405

Response(st) == [status |-> st]
NoResponse == [status |-> 0]
NoRoute == 0 - 1
NoRequest == Request("", <<>>, NoQuery)

\* Route::new
NewRoute(svc, request_spec) == [service |-> svc, request_spec |-> request_spec]

\* Route::matches
RouteMatches(route, req) == Matches(route.request_spec, req)

\* the operations of SimpleServiceOperationRegistry
Services == {"health_check", "register_service"}

\* FromRequest::from_request of the operation's input: a value or a rejection
ExtractOutcomes == {"Ok", "Rejection"}

\* what the user's operation function can return: health_check returns its
\* output, register_service a Result of output or RegisterServiceError
UserOutcomes(svc) == IF svc = "health_check" THEN {"Ok"} ELSE {"Ok", "Err"}

\* IntoResponse of the operation's result; the impl for RegisterServiceError
\* is todo!()
IntoResponse(svc, outcome) ==
    IF outcome = "Ok" THEN Response(StatusOk) ELSE NoResponse
IntoResponsePanics(svc, outcome) == outcome = "Err"

\* RouterFuture / RouteFuture::poll hand the inner future's output through
FutureOutput(svc_out) == svc_out

----------------------------------------------------------------------------
(* Router: routing/mod.rs *)

IdleDispatch ==
    [pc |-> "idle",
     req |-> NoRequest,
     log |-> <<>>,          \* the (RouteId, Match) of every Route::matches call
     route |-> NoRoute,     \* the Route the request was handed to
     invoked |-> <<>>,      \* the RouteIds whose service was called
     extract |-> "none",    \* what from_request returned: "Ok" or "Rejection"
     user_calls |-> 0,      \* calls of the user's operation function
     user_out |-> "none",   \* what the user's function returned: "Ok" or "Err"
     svc_out |-> NoResponse,
     response |-> NoResponse,
     fault |-> "none"]

Tasks == {"t1", "t2"}

LogEntry(id, v) == [id |-> id, verdict |-> v]

RECURSIVE RouterScanMutContinue(_, _, _, _)
\* Router::call's loop if it went on to the remaining routes after a Yes
RouterScanMutContinue(rs, ord, req, log) ==
    IF ord = <<>> THEN [result |-> "Panic", route |-> NoRoute, log |-> log]
    ELSE
        LET id == Head(ord)
            v == RouteMatches(rs[id], req)
            log2 == Append(log, LogEntry(id, v))
        IN  IF v = "Yes"
            THEN [result |-> "Dispatch", route |-> id,
                  log |-> RouterScanMutContinue(rs, Tail(ord), req, log2).log]
            ELSE [result |-> "Panic", route |-> NoRoute, log |-> log2]

\* Router::call's loop over self.routes.iter(), ord being what is left to
\* iterate: the Yes arm returns the route's future, the No and the
\* MethodNotAllowed arms are todo!(), and so is the code after the loop, so
\* every arm leaves the loop at the first route iterated
RouterScan(rs, ord, req, log) ==
    IF ord = <<>> THEN [result |-> "Panic", route |-> NoRoute, log |-> log]
    ELSE
        LET id == Head(ord)
            v == RouteMatches(rs[id], req)
            log2 == Append(log, LogEntry(id, v))
        IN  CASE v = "Yes" -> [result |-> "Dispatch", route |-> id, log |-> log2]
              [] v = "No" -> [result |-> "Panic", route |-> NoRoute, log |-> log2]
              [] v = "MethodNotAllowed" ->
                    [result |-> "Panic", route |-> NoRoute, log |-> log2]
              [] v = "Panic" -> [result |-> "Panic", route |-> NoRoute, log |-> log2]

\* the dispatch record Router::call leaves for req
CallStep(rs, ord, req) ==
    LET r == RouterScan(rs, ord, req, <<>>)
    IN  [IdleDispatch EXCEPT
            !.pc = IF r.result = "Dispatch" THEN "called" ELSE "panicked",
            !.req = req,
            !.log = r.log,
            !.route = r.route,
            !.fault = IF r.result = "Dispatch" THEN "none" ELSE "todo"]

\* Handler::call if it called the user's function on a rejection as well
ExtractStepMutCallsUser(d, e) ==
    [d EXCEPT !.pc = "suspended",
              !.invoked = Append(d.invoked, d.route),
              !.extract = e,
              !.user_calls = d.user_calls + 1]

\* Handler::call up to its await of the user's function, e being what
\* from_request returned: a rejection is converted and returned, otherwise
\* the user's function is called with the value
ExtractStep(d, e) ==
    IF e = "Rejection"
    THEN [d EXCEPT !.pc = "done",
                   !.invoked = Append(d.invoked, d.route),
                   !.extract = e,
                   !.svc_out = Response(StatusBadRequest),
                   !.response = FutureOutput(Response(StatusBadRequest))]
    ELSE [d EXCEPT !.pc = "suspended",
                   !.invoked = Append(d.invoked, d.route),
                   !.extract = e,
                   !.user_calls = d.user_calls + 1]

\* Handler::call from the completion of the user's function on, o being
\* what the function returned: res.into_response()
ResumeStep(d, svc, o) ==
    IF IntoResponsePanics(svc, o)
    THEN [d EXCEPT !.pc = "panicked", !.user_out = o, !.fault = "todo"]
    ELSE [d EXCEPT !.pc = "done",
                   !.user_out = o,
                   !.svc_out = IntoResponse(svc, o),
                   !.response = FutureOutput(IntoResponse(svc, o))]

\* no pattern is being parsed
ParsePending ==
    [err |-> "pending", arg |-> <<>>, path_segments |-> <<>>, query_segments |-> <<>>]
ParseAside ==
    /\ ppat = <<>>
    /\ pres = ParsePending

\* threads that each build a Router of their own
Threads == {"b1", "b2"}
\* a thread before its first Router::route call: Router::new()
NewBuilder == [pc |-> "idle", id |-> NoRoute, svc |-> "", routes |-> <<>>, calls |-> 0]

\* no RequestSpec is being constructed, no Router being built by the threads
CompileAside ==
    /\ cpath = <<>>
    /\ cres = "pending"
    /\ builders = [b \in Threads |-> NewBuilder]

\* Router::new
RouterInit ==
    /\ phase = "build"
    /\ routes = <<>>
    /\ iter = <<>>
    /\ fallback = NewRoute("NotFound", AlwaysGet)
    /\ next_id = 0
    /\ disp = [t \in Tasks |-> IdleDispatch]

\* try_downcast::<Router<B>, _>(svc) is Ok: the service is itself a Router
IsRouter(svc) == svc = "Router"

\* Router::route without the downcast of the service
RouteMutNoDowncast(request_spec, svc) ==
    /\ phase = "build"
    /\ Len(iter) < MaxRoutes
    /\ LET id == next_id
       IN  /\ next_id' = next_id + 1
           /\ routes' = [i \in DOMAIN routes \cup {id} |->
                            IF i = id THEN NewRoute(svc, request_spec) ELSE routes[i]]
           /\ \E k \in 1..(Len(iter) + 1) : iter' = InsertAt(iter, k, id)
    /\ UNCHANGED <<phase, fallback, disp, mvars, pvars, cvars, bvars>>

\* Router::route: a service that is a Router panics the call, before anything
\* is added; otherwise RouteId::next(), then
\* self.routes.insert(id, Route::new(..)), and the new entry can land
\* anywhere in the HashMap's iteration order
Route(request_spec, svc) ==
    /\ phase = "build"
    /\ Len(iter) < MaxRoutes
    /\ IF IsRouter(svc)
       THEN /\ phase' = "build_panicked"
            /\ UNCHANGED <<routes, iter, next_id>>
       ELSE LET id == next_id
            IN  /\ phase' = phase
                /\ next_id' = next_id + 1
                /\ routes' = [i \in DOMAIN routes \cup {id} |->
                                IF i = id THEN NewRoute(svc, request_spec) ELSE routes[i]]
                /\ \E k \in 1..(Len(iter) + 1) : iter' = InsertAt(iter, k, id)
    /\ UNCHANGED <<fallback, disp, mvars, pvars, cvars, bvars>>

\* the Router is handed to the server (into_make_service): build phase over
Serve ==
    /\ phase = "build"
    /\ phase' = "serving"
    /\ UNCHANGED <<routes, iter, fallback, next_id, disp, mvars, pvars, cvars, bvars>>

\* Router::call if the iteration of the route table were shared state that
\* another dispatch in flight leaves turned around
RouterCallMutShared(t, req) ==
    /\ phase = "serving"
    /\ disp[t].pc = "idle"
    /\ LET busy == \E u \in Tasks \ {t} : disp[u].pc \in {"called", "suspended"}
           ord == IF busy THEN [i \in DOMAIN iter |-> iter[Len(iter) + 1 - i]] ELSE iter
       IN  disp' = [disp EXCEPT ![t] = CallStep(routes, ord, req)]
    /\ UNCHANGED <<phase, routes, iter, fallback, next_id, mvars, pvars, cvars, bvars>>

\* Router::call if it moved the Route it dispatches to to the back of the
\* iteration
RouterCallMutMovesRoute(t, req) ==
    /\ phase = "serving"
    /\ disp[t].pc = "idle"
    /\ LET d == CallStep(routes, iter, req)
       IN  /\ disp' = [disp EXCEPT ![t] = d]
           /\ iter' = IF d.route = NoRoute THEN iter
                      ELSE SelectSeq(iter, LAMBDA i : i # d.route) \o <<d.route>>
    /\ UNCHANGED <<phase, routes, fallback, next_id, mvars, pvars, cvars, bvars>>

\* Service::call of Router for one request, by task t
RouterCall(t, req) ==
    /\ phase = "serving"
    /\ disp[t].pc = "idle"
    /\ disp' = [disp EXCEPT ![t] = CallStep(routes, iter, req)]
    /\ UNCHANGED <<phase, routes, iter, fallback, next_id, mvars, pvars, cvars, bvars>>

\* first poll of the returned future: Route::call, OperationHandler::call and
\* Handler::call up to its await of the user's function: the input is
\* extracted, and a rejection is the response
HandlerExtract(t) ==
    /\ disp[t].pc = "called"
    /\ \E e \in ExtractOutcomes : disp' = [disp EXCEPT ![t] = ExtractStep(disp[t], e)]
    /\ UNCHANGED <<phase, routes, iter, fallback, next_id, mvars, pvars, cvars, bvars>>

\* the user's function completes and Handler::call converts what it returned
HandlerResume(t) ==
    /\ disp[t].pc = "suspended"
    /\ LET svc == routes[disp[t].route].service
       IN  \E o \in UserOutcomes(svc) :
                disp' = [disp EXCEPT ![t] = ResumeStep(disp[t], svc, o)]
    /\ UNCHANGED <<phase, routes, iter, fallback, next_id, mvars, pvars, cvars, bvars>>

\* dropping the future of a dispatch in flight with every in-flight dispatch
CancelMutDropsAll(t) ==
    /\ disp[t].pc \in {"called", "suspended"}
    /\ disp' = [u \in Tasks |->
                    IF disp[u].pc \in {"called", "suspended"}
                    THEN [disp[u] EXCEPT !.pc = "cancelled"] ELSE disp[u]]
    /\ UNCHANGED <<phase, routes, iter, fallback, next_id, mvars, pvars, cvars, bvars>>

\* the future returned by Router::call is dropped before it has completed:
\* not yet polled, or pending on the user's function. Neither RouteFuture,
\* Oneshot nor the handler's boxed future does anything on drop.
Cancel(t) ==
    /\ disp[t].pc \in {"called", "suspended"}
    /\ disp' = [disp EXCEPT ![t] = [disp[t] EXCEPT !.pc = "cancelled"]]
    /\ UNCHANGED <<phase, routes, iter, fallback, next_id, mvars, pvars, cvars, bvars>>

\* the task is through with its request and takes the next one
TaskNext(t) ==
    /\ disp[t].pc \in {"done", "panicked", "cancelled"}
    /\ disp' = [disp EXCEPT ![t] = IdleDispatch]
    /\ UNCHANGED <<phase, routes, iter, fallback, next_id, mvars, pvars, cvars, bvars>>

\* the registrations and requests the Router is exercised with
RouterRegistrations ==
    { <<NewRequestSpec("GET", NoHostPrefix, <<Literal(<<"a">>)>>, <<>>), "health_check">>,
      <<NewRequestSpec("POST", NoHostPrefix, <<Literal(<<"a">>)>>, <<>>), "register_service">>,
      <<NewRequestSpec("GET", NoHostPrefix, <<Label>>, <<>>), "register_service">>,
      <<NewRequestSpec("GET", NoHostPrefix, <<Literal(<<"a">>)>>,
                       <<KeyValue(<<"k">>, <<"v">>)>>), "health_check">>,
      <<NewRequestSpec("GET", NoHostPrefix, <<Literal(<<"a">>)>>, <<>>), "Router">> }

RouterRequests ==
    {Request(m, p, q) :
        m \in RequestMethods,
        p \in {<<"/", "a">>, <<"/", "b", "/", "b">>},
        q \in {NoQuery, SomeQuery(<<"k", "=", "v">>), SomeQuery(<<"k", "=", "v", "+">>)}}

Init ==
    /\ RouterInit
    /\ mspec = AlwaysGet
    /\ mreq = NoRequest
    /\ mres = "pending"
    /\ ParseAside
    /\ CompileAside

Next ==
    \/ \E reg \in RouterRegistrations : Route(reg[1], reg[2])
    \/ Serve
    \/ \E t \in Tasks, req \in RouterRequests : RouterCall(t, req)
    \/ \E t \in Tasks : HandlerExtract(t)
    \/ \E t \in Tasks : HandlerResume(t)
    \/ \E t \in Tasks : Cancel(t)
    \/ \E t \in Tasks : TaskNext(t)

Spec == Init /\ [][Next]_vars

----------------------------------------------------------------------------
(* Evaluating matches on one RequestSpec and one request *)

MatchesCall ==
    /\ mres = "pending"
    /\ mres' = Matches(mspec, mreq)
    /\ UNCHANGED <<mspec, mreq, rvars, pvars, cvars, bvars>>

\* a Router that takes no part: these specifications are about matches alone
RouterAside ==
    /\ phase = "aside"
    /\ routes = <<>>
    /\ iter = <<>>
    /\ fallback = NewRoute("NotFound", AlwaysGet)
    /\ next_id = 0
    /\ disp = [t \in Tasks |-> IdleDispatch]

InitMatch ==
    /\ RouterAside
    /\ mspec \in MatchSpecs
    /\ mreq \in MatchRequests
    /\ mres = "pending"
    /\ ParseAside
    /\ CompileAside

InitPath ==
    /\ RouterAside
    /\ mspec \in PathOnlySpecs
    /\ mreq \in PathOnlyRequests
    /\ mres = "pending"
    /\ ParseAside
    /\ CompileAside

NextMatch == MatchesCall

SpecMatch == InitMatch /\ [][NextMatch]_vars

SpecPath == InitPath /\ [][NextMatch]_vars

\* RequestSpecs with and without a declared host prefix
HostPrefixes ==
    { NoHostPrefix,
      SomeHostPrefix(<<HostLiteral(<<"a">>)>>),
      SomeHostPrefix(<<HostLabel, HostLiteral(<<"a">>)>>) }
HostSpecs ==
    {NewRequestSpec(m, h, ps, qs) :
        m \in Methods, h \in HostPrefixes, ps \in PathSpecsUpTo(MaxMatchSegs),
        qs \in {<<>>, <<Key(<<"k">>)>>}}
HostRequests ==
    {Request(m, p, q) :
        m \in RequestMethods, p \in PathsUpTo(MaxMatchPathLen),
        q \in {NoQuery, SomeQuery(<<"k">>)}}

InitHost ==
    /\ RouterAside
    /\ mspec \in HostSpecs
    /\ mreq \in HostRequests
    /\ mres = "pending"
    /\ ParseAside
    /\ CompileAside

SpecHost == InitHost /\ [][NextMatch]_vars

\* query strings with repeated keys and with keys no constraint names: up to
\* MaxQueryPairs `name=value` pieces joined by `&`
MaxQueryPairs == 3
QueryPieces ==
    { <<"k", "=", "v">>, <<"k", "=", "o">>, <<"f", "=", "o">>,
      <<"x", "=", "y">>, <<"x", "=", "+">> }

RECURSIVE JoinPieces(_)
JoinPieces(ps) ==
    IF ps = <<>> THEN <<>>
    ELSE IF Len(ps) = 1 THEN Head(ps)
    ELSE Head(ps) \o <<"&">> \o JoinPieces(Tail(ps))

RepeatSpecs ==
    {NewRequestSpec(m, NoHostPrefix, <<Literal(<<"a">>)>>, qs) :
        m \in Methods, qs \in QuerySpecs}
RepeatRequests ==
    {Request(m, <<"/", "a">>, SomeQuery(JoinPieces(ps))) :
        m \in RequestMethods, ps \in SeqsUpTo(QueryPieces, MaxQueryPairs)}

InitRepeat ==
    /\ RouterAside
    /\ mspec \in RepeatSpecs
    /\ mreq \in RepeatRequests
    /\ mres = "pending"
    /\ ParseAside
    /\ CompileAside

SpecRepeat == InitRepeat /\ [][NextMatch]_vars

\* matches on RequestSpec::always_get()
InitAlways ==
    /\ RouterAside
    /\ mspec = AlwaysGet
    /\ mreq \in MatchRequests
    /\ mres = "pending"
    /\ ParseAside
    /\ CompileAside

SpecAlways == InitAlways /\ [][NextMatch]_vars

\* RequestSpec::new: the PathSpec is converted into the Regex, whose
\* Regex::new(..).unwrap() panics on a pattern that does not compile;
\* otherwise the RequestSpec is returned
RequestSpecNew ==
    /\ cres = "pending"
    /\ IF RegexCompileFails(RegexFromPathSpec(cpath))
       THEN /\ cres' = "panicked"
            /\ mspec' = mspec
       ELSE /\ cres' = "built"
            /\ mspec' = NewRequestSpec("GET", NoHostPrefix, cpath, <<>>)
    /\ UNCHANGED <<cpath, mreq, mres, rvars, pvars, bvars>>

\* matches on the RequestSpec that RequestSpec::new returned
BuiltMatchesCall ==
    /\ cres = "built"
    /\ MatchesCall

\* PathSpecs whose Literal texts may hold an opening parenthesis
CompileLiteralTexts == {<<"a">>, <<"(">>, <<"a", "(">>}
CompilePathSpecs ==
    SeqsUpTo({Literal(t) : t \in CompileLiteralTexts} \cup {Label, Greedy}, MaxMatchSegs)

InitCompile ==
    /\ RouterAside
    /\ mspec = AlwaysGet
    /\ mreq \in {Request(m, p, NoQuery) :
                    m \in RequestMethods, p \in PathsUpTo(MaxMatchPathLen)}
    /\ mres = "pending"
    /\ ParseAside
    /\ cpath \in CompilePathSpecs
    /\ cres = "pending"
    /\ builders = [b \in Threads |-> NewBuilder]

NextCompile ==
    \/ RequestSpecNew
    \/ BuiltMatchesCall

SpecCompile == InitCompile /\ [][NextCompile]_vars

\* Literal segments: the texts a PathSegment::Literal can carry include the
\* characters `+` and `*`; the request path is `/` and one component
MaxLiteralComp == 3
LiteralCompChars == {"a", "b", "+", "*"}
WideLiteralTexts == {<<"a">>, <<"a", "b">>, <<"a", "+">>, <<"a", "*">>}
LiteralSpecs ==
    {NewRequestSpec("GET", NoHostPrefix, <<Literal(t)>>, <<>>) : t \in WideLiteralTexts}
LiteralRequests ==
    {Request("GET", <<"/">> \o c, NoQuery) : c \in SeqsUpTo(LiteralCompChars, MaxLiteralComp)}

InitLiteral ==
    /\ RouterAside
    /\ mspec \in LiteralSpecs
    /\ mreq \in LiteralRequests
    /\ mres = "pending"
    /\ ParseAside
    /\ CompileAside

SpecLiteral == InitLiteral /\ [][NextMatch]_vars

\* a Greedy segment followed by a further segment: the spec
\* GET `/{label}/path/{greedy+}/suffix`, on paths made of whole components
MaxComps == 5
Components ==
    {<<"a">>, <<"b">>, <<"c">>, <<"p", "a", "t", "h">>, <<"s", "u", "f", "f", "i", "x">>}

RECURSIVE PathOfComponents(_)
PathOfComponents(cs) ==
    IF cs = <<>> THEN <<>> ELSE <<"/">> \o Head(cs) \o PathOfComponents(Tail(cs))

GreedyExampleSpec ==
    NewRequestSpec("GET", NoHostPrefix,
                   <<Label, Literal(<<"p", "a", "t", "h">>), Greedy,
                     Literal(<<"s", "u", "f", "f", "i", "x">>)>>, <<>>)
GreedyRequests ==
    {Request(m, PathOfComponents(cs), NoQuery) :
        m \in Methods, cs \in SeqsUpTo(Components, MaxComps) \ {<<>>}}

InitGreedy ==
    /\ RouterAside
    /\ mspec = GreedyExampleSpec
    /\ mreq \in GreedyRequests
    /\ mres = "pending"
    /\ ParseAside
    /\ CompileAside

SpecGreedy == InitGreedy /\ [][NextMatch]_vars

----------------------------------------------------------------------------
(* PathAndQuerySpec::parse: request_spec.rs                                *)

Contains(s, c) == \E k \in DOMAIN s : s[k] = c

\* Err(PathAndQuerySpecParseError), arg the segment an error variant carries
ParseError(e, arg) ==
    [err |-> e, arg |-> arg, path_segments |-> <<>>, query_segments |-> <<>>]
\* Ok(PathAndQuerySpec { path_segments, query_segments })
ParseOk(path_segments, query_segments) ==
    [err |-> "None", arg |-> <<>>,
     path_segments |-> path_segments, query_segments |-> query_segments]

\* the closure with its UnclosedLabel and UnopenedLabel arms exchanged
ParsePathSegmentMutSwapped(path_segment) ==
    IF path_segment = <<>> THEN [err |-> "ContainsEmptyPathSegment", seg |-> Label]
    ELSE
        LET n == Len(path_segment)
            first_char == path_segment[1]
            last_char == path_segment[n]
            penultimate_is_plus == n >= 2 /\ path_segment[n - 1] = "+"
        IN  IF first_char = "{" /\ penultimate_is_plus /\ last_char = "}"
                THEN [err |-> "None", seg |-> Greedy]
            ELSE IF first_char = "{" /\ last_char = "}"
                THEN [err |-> "None", seg |-> Label]
            ELSE IF first_char = "{"
                THEN [err |-> "UnopenedLabel", seg |-> Label]
            ELSE IF last_char = "}"
                THEN [err |-> "UnclosedLabel", seg |-> Label]
            ELSE [err |-> "None", seg |-> Literal(path_segment)]

\* the closure without its Greedy arm
ParsePathSegmentMutNoGreedy(path_segment) ==
    IF path_segment = <<>> THEN [err |-> "ContainsEmptyPathSegment", seg |-> Label]
    ELSE
        LET n == Len(path_segment)
            first_char == path_segment[1]
            last_char == path_segment[n]
        IN  IF first_char = "{" /\ last_char = "}"
                THEN [err |-> "None", seg |-> Label]
            ELSE IF first_char = "{"
                THEN [err |-> "UnclosedLabel", seg |-> Label]
            ELSE IF last_char = "}"
                THEN [err |-> "UnopenedLabel", seg |-> Label]
            ELSE [err |-> "None", seg |-> Literal(path_segment)]

\* the closure mapped over the pieces of the path: the match on the first,
\* the penultimate and the last character of the piece
ParsePathSegment(path_segment) ==
    IF path_segment = <<>> THEN [err |-> "ContainsEmptyPathSegment", seg |-> Label]
    ELSE
        LET n == Len(path_segment)
            first_char == path_segment[1]
            last_char == path_segment[n]
            penultimate_is_plus == n >= 2 /\ path_segment[n - 1] = "+"
        IN  IF first_char = "{" /\ penultimate_is_plus /\ last_char = "}"
                THEN [err |-> "None", seg |-> Greedy]
            ELSE IF first_char = "{" /\ last_char = "}"
                THEN [err |-> "None", seg |-> Label]
            ELSE IF first_char = "{"
                THEN [err |-> "UnclosedLabel", seg |-> Label]
            ELSE IF last_char = "}"
                THEN [err |-> "UnopenedLabel", seg |-> Label]
            ELSE [err |-> "None", seg |-> Literal(path_segment)]

\* the path part: `/` is the empty PathSpec, otherwise the pieces between
\* the slashes, the first (empty) one skipped, collected up to the first error
ParsePathSpec(path) ==
    IF path = <<"/">> THEN ParseOk(<<>>, <<>>)
    ELSE
        LET pieces == Tail(SplitOn(path, "/"))
            parsed == [i \in DOMAIN pieces |-> ParsePathSegment(pieces[i])]
            bad == {i \in DOMAIN pieces : parsed[i].err # "None"}
        IN  IF bad = {}
            THEN ParseOk([i \in DOMAIN pieces |-> parsed[i].seg], <<>>)
            ELSE LET i == CHOOSE j \in bad : \A k \in bad : j <= k
                 IN  ParseError(parsed[i].err,
                                IF parsed[i].err = "ContainsEmptyPathSegment"
                                THEN <<>> ELSE pieces[i])

\* the QuerySegment made of one entry of the deserialized map
QuerySegmentOf(k, v) == IF v = <<>> THEN Key(k) ELSE KeyValue(k, v)

\* HashMap::into_iter yields the entries in the hash table's order: any order
QuerySegmentOrders(map) ==
    LET n == Cardinality(DOMAIN map)
    IN  { [i \in 1..n |-> QuerySegmentOf(f[i], map[f[i]])] :
            f \in {g \in [1..n -> DOMAIN map] : \A i, j \in 1..n : g[i] = g[j] => i = j} }

\* everything PathAndQuerySpec::parse(s) can return
ParseOutcomes(s) ==
    IF s = <<>> \/ s[1] # "/" THEN {ParseError("DoesNotStartWithForwardSlash", <<>>)}
    ELSE IF s[Len(s)] = "?" THEN {ParseError("EndsWithQuestionMark", <<>>)}
    ELSE IF Contains(s, "#") THEN {ParseError("ContainsFragment", <<>>)}
    ELSE IF Contains(s, ".") THEN {ParseError("ContainsDotSegment", <<>>)}
    ELSE
        LET parts == SplitOn(s, "?")
            path_spec == ParsePathSpec(parts[1])
        IN  IF path_spec.err # "None" THEN {path_spec}
            ELSE IF Len(parts) = 1 THEN {ParseOk(path_spec.path_segments, <<>>)}
            ELSE LET q == ParseQuery(parts[2])
                 IN  IF ~q.ok THEN {ParseError("InvalidQuerySpec", <<>>)}
                     ELSE {ParseOk(path_spec.path_segments, qs) :
                                qs \in QuerySegmentOrders(q.map)}

\* one call of PathAndQuerySpec::parse
ParseCall ==
    /\ pres = ParsePending
    /\ pres' \in ParseOutcomes(ppat)
    /\ UNCHANGED <<ppat, mvars, rvars, cvars, bvars>>

\* the patterns parse is exercised with: up to MaxPatSegs pieces after the
\* leading slashes, then nothing or a `?` part; and two patterns without a
\* leading slash
MaxPatSegs == 3
PatternPieces ==
    { <<"a">>, <<"{", "a", "}">>, <<"{", "a", "+", "}">>, <<"{", "a">>, <<"a", "}">>,
      <<"a", "{", "a">>, <<>>, <<".">>, <<"#">> }
PatternQueryParts ==
    { <<>>, <<"?">>, <<"?", "k">>, <<"?", "k", "=", "v">>,
      <<"?", "k", "=", "v", "&", "f">>, <<"?", "k", "=", "v", "+">>,
      <<"?", "k", "?", "f">> }
Patterns ==
    {PathOfComponents(ps) \o q :
        ps \in SeqsUpTo(PatternPieces, MaxPatSegs) \ {<<>>}, q \in PatternQueryParts}
    \cup {<<>>, <<"a">>}

InitParse ==
    /\ RouterAside
    /\ mspec = AlwaysGet
    /\ mreq = NoRequest
    /\ mres = "pending"
    /\ ppat \in Patterns
    /\ pres = ParsePending
    /\ CompileAside

NextParse == ParseCall

SpecParse == InitParse /\ [][NextParse]_vars

\* the RequestSpecs the operation registry builds its Router from
HealthCheckSpec ==
    NewRequestSpec("GET", NoHostPrefix,
        << Literal(<<"p", "a", "t", "h">>), Literal(<<"t", "o">>), Label,
           Literal(<<"h", "e", "a", "l", "t", "h", "c", "h", "e", "c", "k">>) >>,
        <<>>)
RegisterServiceSpec ==
    NewRequestSpec("POST", NoHostPrefix,
        << Literal(<<"r", "e", "g", "i", "s", "t", "e", "r", "-",
                     "s", "e", "r", "v", "i", "c", "e">>),
           Greedy,
           Literal(<<"s", "u", "f", "f", "i", "x">>) >>,
        << Key(<<"k", "e", "y">>), KeyValue(<<"f", "o", "o">>, <<"b", "a", "r">>) >>)
RegistrySpecs == {HealthCheckSpec, RegisterServiceSpec}

\* impl From<SimpleServiceOperationRegistry> for Router:
\* Router::new().route(health_check spec, ..).route(register_service spec, ..);
\* the two entries come in either order out of the HashMap's iteration
FromRegistry ==
    /\ phase = "build"
    /\ routes = <<>>
    /\ next_id' = next_id + 2
    /\ routes' = [i \in {next_id, next_id + 1} |->
                    IF i = next_id THEN NewRoute("health_check", HealthCheckSpec)
                    ELSE NewRoute("register_service", RegisterServiceSpec)]
    /\ iter' \in {<<next_id, next_id + 1>>, <<next_id + 1, next_id>>}
    /\ UNCHANGED <<phase, fallback, disp, mvars, pvars, cvars, bvars>>

\* most Router::route calls of one building thread
MaxRouteCalls == 3

\* RouteId::next without the atomic increment: the counter is read only
RouteIdNextMutNoIncrement(b, svc) ==
    /\ builders[b].pc = "idle"
    /\ builders[b].calls < MaxRouteCalls
    /\ builders' = [builders EXCEPT ![b] = [@ EXCEPT !.pc = "insert", !.id = next_id,
                                                      !.svc = svc]]
    /\ UNCHANGED <<rvars, mvars, pvars, cvars>>

\* Router::route by thread b up to and including RouteId::next():
\* ID.fetch_add(1, Ordering::SeqCst) on the static counter, one atomic step
RouteIdNext(b, svc) ==
    /\ builders[b].pc = "idle"
    /\ builders[b].calls < MaxRouteCalls
    /\ next_id' = next_id + 1
    /\ builders' = [builders EXCEPT ![b] = [@ EXCEPT !.pc = "insert", !.id = next_id,
                                                      !.svc = svc]]
    /\ UNCHANGED <<phase, routes, iter, fallback, disp, mvars, pvars, cvars>>

\* the rest of Router::route: self.routes.insert(id, Route::new(svc, ..)),
\* which replaces the entry of a key the map already holds
RouteInsert(b) ==
    /\ builders[b].pc = "insert"
    /\ LET w == builders[b]
       IN  builders' = [builders EXCEPT ![b] =
                [w EXCEPT !.pc = "idle",
                          !.routes = [i \in DOMAIN w.routes \cup {w.id} |->
                                        IF i = w.id THEN NewRoute(w.svc, AlwaysGet)
                                        ELSE w.routes[i]],
                          !.calls = w.calls + 1]]
    /\ UNCHANGED <<rvars, mvars, pvars, cvars>>

NextBuild ==
    \/ \E b \in Threads, svc \in Services : RouteIdNext(b, svc)
    \/ \E b \in Threads : RouteInsert(b)

SpecBuild == Init /\ [][NextBuild]_vars

\* the requests the registry's Router is exercised with: the documented
\* examples and near misses
RegistryPaths ==
    { PathOfComponents(<<<<"p", "a", "t", "h">>, <<"t", "o">>, <<"a">>, <<"h", "e", "a", "l", "t", "h", "c", "h", "e", "c", "k">>>>),
      PathOfComponents(<<<<"p", "a", "t", "h">>, <<"t", "o">>, <<"l", "a", "b", "e", "l">>, <<"h", "e", "a", "l", "t", "h", "c", "h", "e", "c", "k">>>>),
      PathOfComponents(<<<<"p", "a", "t", "h">>, <<"t", "o">>, <<"h", "e", "a", "l", "t", "h", "c", "h", "e", "c", "k">>>>),
      PathOfComponents(<<<<"r", "e", "g", "i", "s", "t", "e", "r", "-", "s", "e", "r", "v", "i", "c", "e">>, <<"g", "r", "e">>, <<"e", "e">>, <<"d", "y">>, <<"s", "u", "f", "f", "i", "x">>>>),
      PathOfComponents(<<<<"r", "e", "g", "i", "s", "t", "e", "r", "-", "s", "e", "r", "v", "i", "c", "e">>, <<"s", "u", "f", "f", "i", "x">>>>) }
RegistryQueries ==
    { NoQuery,
      SomeQuery(<<"k", "e", "y", "&", "f", "o", "o", "=", "b", "a", "r">>),
      SomeQuery(<<"k", "e", "y">>) }
RegistryRequests ==
    {Request(m, p, q) : m \in Methods, p \in RegistryPaths, q \in RegistryQueries}

NextRegistry ==
    \/ FromRegistry
    \/ Serve
    \/ \E t \in Tasks, req \in RegistryRequests : RouterCall(t, req)
    \/ \E t \in Tasks : HandlerExtract(t)
    \/ \E t \in Tasks : HandlerResume(t)
    \/ \E t \in Tasks : Cancel(t)
    \/ \E t \in Tasks : TaskNext(t)

SpecRegistry == Init /\ [][NextRegistry]_vars

----------------------------------------------------------------------------
(* Properties of the Router's dispatch (specification Spec)                *)

Ended(d) == d.pc \in {"done", "panicked"}

\* the verdict the Route registered under id gives for req
Verdict(id, req) == RouteMatches(routes[id], req)

\* C1: a dispatch for which no Route's verdict is Yes and some Route's
\* verdict is MethodNotAllowed ends with a 405 Method Not Allowed response.
C1_MethodNotAllowedGets405 ==
    \A t \in Tasks :
        ( /\ Ended(disp[t])
          /\ \A id \in DOMAIN routes : Verdict(id, disp[t].req) # "Yes"
          /\ \E id \in DOMAIN routes : Verdict(id, disp[t].req) = "MethodNotAllowed" )
        => disp[t].response = Response(StatusMethodNotAllowed)

\* C2: a dispatch for which no Route's verdict is Yes or MethodNotAllowed
\* (the empty route table included) ends with a 404 Not Found response.
C2_NoMatchGets404 ==
    \A t \in Tasks :
        ( /\ Ended(disp[t])
          /\ \A id \in DOMAIN routes :
                Verdict(id, disp[t].req) \notin {"Yes", "MethodNotAllowed"} )
        => disp[t].response = Response(StatusNotFound)

\* C3: once Router::call has run for a request that some registered Route
\* answers Yes, the request has been handed to a Route that answers Yes,
\* whatever the other Routes answer.
C3_YesRouteIsDispatched ==
    \A t \in Tasks :
        ( /\ disp[t].pc # "idle"
          /\ \E id \in DOMAIN routes : Verdict(id, disp[t].req) = "Yes" )
        => /\ disp[t].route # NoRoute
           /\ Verdict(disp[t].route, disp[t].req) = "Yes"

\* C4: the Route a request is handed to is the first-registered of the
\* Routes that answer Yes: no Route registered before it (RouteIds are
\* handed out in registration order) answers Yes for the request.
C4_FirstRegisteredWins ==
    \A t \in Tasks :
        disp[t].route # NoRoute
        => \A id \in DOMAIN routes :
                id < disp[t].route => Verdict(id, disp[t].req) # "Yes"

\* C5: no dispatch ends in a panic, and a dispatch that has ended carries a
\* response.
C5_EveryDispatchResponds ==
    \A t \in Tasks :
        /\ disp[t].pc # "panicked"
        /\ disp[t].pc = "done" => disp[t].response # NoResponse

\* C6: a Yes is the last verdict of a dispatch (no Route is evaluated after
\* it), the request is handed to the Route that gave it, only that Route's
\* service is invoked and only once, the user's function runs at most once,
\* and the response of a dispatch that returned is that service's response.
C6_FirstYesDispatches ==
    \A t \in Tasks :
        LET d == disp[t]
            n == Len(d.log)
        IN  /\ \A k \in 1..n : d.log[k].verdict = "Yes" => k = n
            /\ (n > 0 /\ d.log[n].verdict = "Yes") => d.route = d.log[n].id
            /\ d.route # NoRoute => (n > 0 /\ d.log[n] = LogEntry(d.route, "Yes"))
            /\ \A k \in 1..Len(d.invoked) : d.invoked[k] = d.route
            /\ Len(d.invoked) <= 1
            /\ d.user_calls <= Len(d.invoked)
            /\ (d.route # NoRoute /\ d.pc \in {"suspended", "done", "panicked"})
                    => d.invoked = <<d.route>>
            /\ d.pc = "done" => (d.route # NoRoute /\ d.response = d.svc_out)

\* C6's case: a Router holding two Routes handed a request to the Route
\* that answered Yes and returned its service's response, the other Route
\* never having been evaluated.
C6_Witness ==
    \E t \in Tasks :
        /\ disp[t].pc = "done"
        /\ Len(iter) = 2
        /\ Len(disp[t].log) = 1
        /\ disp[t].log[1].verdict = "Yes"
        /\ disp[t].invoked = <<disp[t].route>>
        /\ disp[t].user_calls = 1
        /\ disp[t].response = Response(StatusOk)

----------------------------------------------------------------------------
(* Properties of RequestSpec::matches (specifications SpecMatch, SpecPath) *)

Parsable(text) == ~ \E k \in 1..Len(text) : NeedsDecoding(text, k)

\* a declared query constraint fails on the pairs of the request's query
ConstraintFails(seg, pairs) ==
    LET occ == {j \in 1..Len(pairs) : pairs[j].name = seg.key}
    IN  \/ occ = {}
        \/ /\ seg.kind = "KeyValue"
           /\ \E j \in occ : (\A k \in occ : k <= j) /\ pairs[j].value # seg.value

\* the request's query satisfies every declared query constraint
QuerySatisfies(spec, req) ==
    \/ spec.query_segments = <<>>
    \/ /\ req.query.present
       /\ Parsable(req.query.text)
       /\ \A i \in 1..Len(spec.query_segments) :
            ~ConstraintFails(spec.query_segments[i], QueryPairs(req.query.text))

\* the reference verdict for a spec with no host prefix
RefMatches(spec, req) ==
    IF ~IsMatch(spec.uri_path_regex, req.path) THEN "No"
    ELSE IF ~QuerySatisfies(spec, req) THEN "No"
    ELSE IF req.method = spec.method THEN "Yes"
    ELSE "MethodNotAllowed"

\* the spec GET `/a?k=v`, standing for GET `/resource?key=value`
ExampleSpec ==
    NewRequestSpec("GET", NoHostPrefix, <<Literal(<<"a">>)>>, <<KeyValue(<<"k">>, <<"v">>)>>)
ExampleReq(m, q) == Request(m, <<"/", "a">>, q)

\* C7: for a spec with no host prefix, matches returns the reference
\* verdict: No on a path mismatch; No when query constraints are declared
\* and the query is absent, unparsable or fails one; otherwise Yes on the
\* declared method and MethodNotAllowed on any other. On GET `/a?k=v`:
\* GET /a?k=v is Yes, GET /a?k=o is No, GET /a is No, POST /a?k=v is
\* MethodNotAllowed.
C7_MatchesReference ==
    (mres # "pending" /\ mspec.host_prefix = NoHostPrefix)
    => /\ mres = RefMatches(mspec, mreq)
       /\ mspec = ExampleSpec =>
            /\ mreq = ExampleReq("GET", SomeQuery(<<"k", "=", "v">>)) => mres = "Yes"
            /\ mreq = ExampleReq("GET", SomeQuery(<<"k", "=", "o">>)) => mres = "No"
            /\ mreq = ExampleReq("GET", NoQuery) => mres = "No"
            /\ mreq = ExampleReq("POST", SomeQuery(<<"k", "=", "v">>))
                    => mres = "MethodNotAllowed"

\* C7's case: matches has answered No for GET /a?k=o on the spec GET `/a?k=v`
C7_Witness ==
    /\ mspec = ExampleSpec
    /\ mreq = ExampleReq("GET", SomeQuery(<<"k", "=", "o">>))
    /\ mres = "No"

\* C8: matches returns MethodNotAllowed only if the path matches, the query
\* satisfies every declared query constraint and the method differs from
\* the declared one.
C8_MethodNotAllowedOnlyOnFullMatch ==
    mres = "MethodNotAllowed"
    => /\ IsMatch(mspec.uri_path_regex, mreq.path)
       /\ QuerySatisfies(mspec, mreq)
       /\ mreq.method # mspec.method

\* C8's case: matches has answered MethodNotAllowed on a spec that declares
\* query constraints
C8_Witness ==
    /\ mres = "MethodNotAllowed"
    /\ mspec.query_segments # <<>>
    /\ mreq.query.present

\* the request path matched the path matcher
PathMatched == mres \in {"Yes", "MethodNotAllowed"}

\* the pattern matches s from its first character on
IsWholeMatch(pattern, s) == MatchFrom(ParseRegex(pattern, 1), 1, s, 1)

\* C9: a request path matches a (non-empty) PathSpec only if the whole path,
\* from its first character on, corresponds to the segment sequence.
C9_AnchoredWholePath ==
    (PathMatched /\ mspec.path_segments # <<>>)
    => IsWholeMatch(mspec.uri_path_regex, mreq.path)

\* the pattern text of a segment, a Greedy holding at least one character
\* that is not a slash
StrictSegmentPattern(seg) ==
    IF seg.kind = "Greedy"
    THEN <<".", "*", "[", "^", "/", "]", ".", "*">>
    ELSE SegmentPattern(seg)

RECURSIVE StrictFoldSegments(_, _)
StrictFoldSegments(acc, segs) ==
    IF segs = <<>> THEN acc
    ELSE StrictFoldSegments(acc \o <<"/", "+">> \o StrictSegmentPattern(Head(segs)),
                            Tail(segs))

\* C10: a request path matches only with every Greedy position holding one
\* or more path components: with nothing, or only empty components, at a
\* Greedy position the path does not match.
C10_GreedyNeedsComponent ==
    PathMatched
    => IsMatch(StrictFoldSegments(<<>>, mspec.path_segments) \o <<"$">>, mreq.path)

----------------------------------------------------------------------------
(* Properties of the path matcher, segment by segment (specification       *)
(* SpecPath)                                                               *)

RECURSIVE MatchSpans(_, _, _, _)
\* every way items[i..] match a stretch of s that starts at position p: the
\* stretch each item takes, as its first position and its length
MatchSpans(items, i, s, p) ==
    IF i > Len(items) THEN {<<>>}
    ELSE
        LET it == items[i]
            lo == IF it.rep = "*" THEN 0 ELSE 1
            hi == IF it.rep = "1" THEN 1 ELSE Len(s) - p + 1
            lens == IF it.cls = "end"
                    THEN IF p = Len(s) + 1 THEN {0} ELSE {}
                    ELSE {n \in lo..hi :
                            /\ p + n - 1 <= Len(s)
                            /\ \A k \in p..(p + n - 1) : InClass(it, s[k])}
        IN  UNION { {<<[from |-> p, len |-> n]>> \o rest :
                        rest \in MatchSpans(items, i + 1, s, p + n)} : n \in lens }

\* every match of the pattern anywhere in s
AllMatches(pattern, s) ==
    UNION {MatchSpans(ParseRegex(pattern, 1), 1, s, start) : start \in 1..(Len(s) + 1)}

\* the regex item that stands for segment k of the PathSpec: the one after
\* the separator that follows the first k - 1 segments
ItemOfSegment(segs, k) ==
    Len(ParseRegex(FoldSegments(<<>>, SubSeq(segs, 1, k - 1)) \o <<"/", "+">>, 1)) + 1

\* the stretch sp of s is one whole, non-empty path component
IsOneComponent(s, sp) ==
    /\ sp.len >= 1
    /\ \A k \in sp.from..(sp.from + sp.len - 1) : s[k] # "/"
    /\ sp.from > 1 /\ s[sp.from - 1] = "/"
    /\ sp.from + sp.len <= Len(s) => s[sp.from + sp.len] = "/"

\* C11: in every match of a request path, what stands at a Label position is
\* exactly one path component: it is not empty, it holds no `/`, and it is
\* the whole text between two separators (or the end of the path).
C11_LabelIsOneComponent ==
    PathMatched
    => \A k \in DOMAIN mspec.path_segments :
        mspec.path_segments[k] = Label
        => \A m \in AllMatches(mspec.uri_path_regex, mreq.path) :
              IsOneComponent(mreq.path, m[ItemOfSegment(mspec.path_segments, k)])

\* C11's case: /a/bb has matched `/a/{label}`, the Label holding bb
C11_Witness ==
    /\ mres = "Yes"
    /\ mspec.path_segments = <<Literal(<<"a">>), Label>>
    /\ mreq.path = <<"/", "a", "/", "b", "b">>

----------------------------------------------------------------------------
(* Literal segments (specification SpecLiteral)                            *)

\* C12: a Literal segment matches exactly its own text: on the PathSpec of
\* one Literal with text t, the path `/` + c matches if and only if the
\* component c is, character for character, t.
C12_LiteralMatchesOwnText ==
    mres # "pending"
    => (PathMatched <=> mreq.path = <<"/">> \o mspec.path_segments[1].text)

----------------------------------------------------------------------------
(* A Greedy segment before further segments (specification SpecGreedy)     *)

\* the components of a path: what stands between its separators
ComponentsOf(path) == SplitOn(Tail(path), "/")

\* the path is /<c>/path/<c1>/.../<cn>/suffix with n >= 1, every component
\* non-empty
IsGreedyExamplePath(path) ==
    LET cs == ComponentsOf(path)
    IN  /\ Len(cs) >= 4
        /\ \A i \in DOMAIN cs : cs[i] # <<>>
        /\ cs[2] = <<"p", "a", "t", "h">>
        /\ cs[Len(cs)] = <<"s", "u", "f", "f", "i", "x">>

\* C13: on the spec GET `/{label}/path/{greedy+}/suffix`, every GET request
\* whose path is /<c>/path/<c1>/.../<cn>/suffix, n >= 1 non-empty
\* components at the Greedy position, gets the verdict Yes.
C13_GreedyAbsorbsComponents ==
    ( /\ mres # "pending"
      /\ mspec = GreedyExampleSpec
      /\ mreq.method = "GET"
      /\ IsGreedyExamplePath(mreq.path) )
    => mres = "Yes"

\* C13's case: GET /a/path/b/c/suffix has the verdict Yes, the Greedy
\* position holding the two components b and c
C13_Witness ==
    /\ mspec = GreedyExampleSpec
    /\ mreq.path = PathOfComponents(<<<<"a">>, <<"p", "a", "t", "h">>, <<"b">>, <<"c">>,
                                      <<"s", "u", "f", "f", "i", "x">>>>)
    /\ mreq.method = "GET"
    /\ mres = "Yes"

----------------------------------------------------------------------------
(* PathSpecs accepted (specification SpecParse)                            *)

\* a Greedy segment stands nowhere but at the last position
GreedyOnlyLast(path_segments) ==
    \A i \in DOMAIN path_segments :
        path_segments[i] = Greedy => i = Len(path_segments)

\* C14: every PathSpec that PathAndQuerySpec::parse returns, and every
\* PathSpec the operation registry passes to RequestSpec::new, has at most
\* one Greedy segment, and that one is its last segment.
C14_GreedyOnceAndLast ==
    /\ pres.err = "None" => GreedyOnlyLast(pres.path_segments)
    /\ \A spec \in RegistrySpecs : GreedyOnlyLast(spec.path_segments)

----------------------------------------------------------------------------
(* The operation handler adapter (specification Spec)                      *)

\* C15: the adapter first extracts the operation input. When the extraction
\* fails, the rejection, converted, is the response and the user's function
\* is not called; when it succeeds, the user's function is called exactly
\* once, and the output it returns, converted, is the response.
C15_ExtractThenCallOnce ==
    \A t \in Tasks :
        LET d == disp[t]
        IN  /\ d.extract = "Rejection"
                => /\ d.user_calls = 0
                   /\ d.pc = "done"
                   /\ d.response = Response(StatusBadRequest)
            /\ d.extract = "Ok" => d.user_calls = 1
            /\ d.extract = "none" => d.user_calls = 0
            /\ (d.extract = "Ok" /\ d.user_out = "Ok")
                => /\ d.pc = "done"
                   /\ d.response = Response(StatusOk)

\* C15's case: one dispatch has ended with the rejection's response, another
\* with the converted output of the user's function
C15_Witness ==
    \E t, u \in Tasks :
        /\ disp[t].extract = "Rejection" /\ disp[t].pc = "done"
        /\ disp[u].extract = "Ok" /\ disp[u].user_out = "Ok" /\ disp[u].pc = "done"

\* C16: when the user's function returns its declared operation error, the
\* adapter converts the error to a response as it does a success; every
\* invocation of the adapter that ends, ends in a well-formed response and
\* never in a fault.
C16_OperationErrorGetsResponse ==
    \A t \in Tasks :
        LET d == disp[t]
        IN  /\ d.user_out = "Err"
                => /\ d.pc = "done"
                   /\ d.response # NoResponse
            /\ (d.invoked # <<>> /\ Ended(d))
                => /\ d.pc = "done"
                   /\ d.fault = "none"
                   /\ d.response # NoResponse

----------------------------------------------------------------------------
(* Concurrent dispatches on one Router (specification Spec)                *)

InFlight(d) == d.pc \in {"called", "suspended"}

\* the records a dispatch of req passes through when it is the only one the
\* Router serves: after Router::call, after the extraction, and after the
\* user's function has returned
AloneRecords(req) ==
    LET called == CallStep(routes, iter, req)
        extracted == IF called.pc = "called"
                     THEN {ExtractStep(called, e) : e \in ExtractOutcomes}
                     ELSE {}
        resumed == UNION { IF x.pc = "suspended"
                           THEN {ResumeStep(x, routes[x.route].service, o) :
                                    o \in UserOutcomes(routes[x.route].service)}
                           ELSE {} : x \in extracted }
    IN  {called} \cup extracted \cup resumed

\* one step touches the dispatch of one task only, and a dispatch keeps its
\* request while it is in flight
OneDispatchPerStep ==
    /\ \A t, u \in Tasks : (t # u /\ disp'[t] # disp[t]) => disp'[u] = disp[u]
    /\ \A t \in Tasks : InFlight(disp[t]) => disp'[t].req = disp[t].req

\* C17: dispatches that run concurrently on the shared Router, under every
\* interleaving of their steps, each go through what the same request goes
\* through when dispatched alone, and end with the same outcome: no step of
\* one dispatch changes another, whatever the other is doing.
C17_ConcurrentAsSequential ==
    /\ [](\A t \in Tasks :
            (InFlight(disp[t]) \/ Ended(disp[t])) => disp[t] \in AloneRecords(disp[t].req))
    /\ [][OneDispatchPerStep]_vars

\* C17's case: one dispatch has ended with its response while the dispatch of
\* a different request is still in flight
C17_Witness ==
    \E t, u \in Tasks :
        /\ disp[t].pc = "done"
        /\ disp[u].pc = "suspended"
        /\ disp[t].req # disp[u].req

\* the step drops the dispatch of task t at a suspension point
IsCancelOf(t) == InFlight(disp[t]) /\ disp'[t].pc = "cancelled"

\* C18: dropping one in-flight dispatch at its suspension point leaves the
\* route table, every Route and the fallback as they were and touches no
\* other dispatch; every other dispatch in flight can still take its next
\* step, and ends as the same request ends when dispatched alone.
C18_CancelLeavesOthers ==
    /\ [][\A t \in Tasks :
            IsCancelOf(t)
            => /\ routes' = routes /\ iter' = iter /\ fallback' = fallback
               /\ phase' = phase /\ next_id' = next_id
               /\ \A u \in Tasks \ {t} : disp'[u] = disp[u]]_vars
    /\ [](\A t, u \in Tasks :
            (disp[t].pc = "cancelled" /\ u # t)
            => /\ disp[u].pc = "called" => ENABLED HandlerExtract(u)
               /\ disp[u].pc = "suspended" => ENABLED HandlerResume(u)
               /\ Ended(disp[u]) => disp[u] \in AloneRecords(disp[u].req))

\* C18's case: one dispatch was dropped while suspended, and the other, in
\* flight at the time, has since ended with its response
C18_Witness ==
    \E t, u \in Tasks :
        /\ disp[t].pc = "cancelled" /\ disp[t].extract = "Ok"
        /\ disp[u].pc = "done" /\ disp[u].response = Response(StatusOk)

\* C19: dispatching reads the Router and never writes it: no step taken
\* once the build phase has ended changes the route table, a RequestSpec, a
\* compiled matcher or the fallback; and every verdict a dispatch was given
\* is the verdict the Route gives that request now, whatever was dispatched
\* in between.
C19_DispatchIsReadOnly ==
    /\ [][phase = "serving"
            => /\ routes' = routes /\ iter' = iter /\ fallback' = fallback
               /\ phase' = phase /\ next_id' = next_id]_vars
    /\ [](\A id \in DOMAIN routes :
            routes[id].request_spec.uri_path_regex
                = RegexFromPathSpec(routes[id].request_spec.path_segments))
    /\ [](\A t \in Tasks : \A k \in DOMAIN disp[t].log :
            disp[t].log[k].verdict = Verdict(disp[t].log[k].id, disp[t].req))

\* C19's case: with two Routes in the table, both tasks have been through a
\* dispatch, one to a response and one to the end of another request
C19_Witness ==
    /\ phase = "serving"
    /\ Len(iter) = 2
    /\ \E t, u \in Tasks :
        /\ t # u
        /\ disp[t].pc = "done" /\ disp[t].log # <<>>
        /\ Ended(disp[u]) /\ disp[u].log # <<>>
        /\ disp[u].req # disp[t].req

----------------------------------------------------------------------------
(* Registration (specification Spec)                                       *)

\* what the step Route(request_spec, svc) must look like
RouteCallOutcome(request_spec, svc) ==
    IF IsRouter(svc)
    THEN /\ phase' = "build_panicked"
         /\ routes' = routes /\ iter' = iter
    ELSE /\ phase' = "build"
         /\ DOMAIN routes' = DOMAIN routes \cup {next_id}
         /\ next_id \notin DOMAIN routes
         /\ routes'[next_id] = NewRoute(svc, request_spec)
         /\ \A id \in DOMAIN routes : routes'[id] = routes[id]

\* C20: Router::route(spec, svc) with a svc that is itself a Router fails at
\* registration: the call panics, no Route is added, and this happens in the
\* build phase, before any request is dispatched; with a service that is
\* not a Router the call succeeds and adds the Route.
C20_RouterAsServiceRejected ==
    /\ [][\A reg \in RouterRegistrations :
            Route(reg[1], reg[2]) => RouteCallOutcome(reg[1], reg[2])]_vars
    /\ [](\A id \in DOMAIN routes : ~IsRouter(routes[id].service))
    /\ [](phase = "build_panicked" => \A t \in Tasks : disp[t] = IdleDispatch)
    /\ [][phase = "build_panicked" => UNCHANGED vars]_vars

\* C20's case: a Route with an operation service has been added, and a later
\* Router::route with a Router as the service has panicked
C20_Witness ==
    /\ phase = "build_panicked"
    /\ Len(iter) = 1
    /\ \A id \in DOMAIN routes : routes[id].service = "health_check"

----------------------------------------------------------------------------
(* Host prefix (specification SpecHost)                                    *)

\* the RequestSpec that differs from spec in declaring no host prefix
WithoutHostPrefix(spec) == [spec EXCEPT !.host_prefix = NoHostPrefix]

\* C21: a declared host prefix is left unevaluated: matches returns for a
\* RequestSpec with a host prefix the verdict it returns for the otherwise
\* identical RequestSpec without one, going on to the path, the query and
\* the method.
C21_HostPrefixUnevaluated ==
    mres # "pending" => mres = Matches(WithoutHostPrefix(mspec), mreq)

----------------------------------------------------------------------------
(* Compiling the path matcher (specification SpecCompile)                  *)

\* C22: a path pattern that does not compile is reported by RequestSpec::new
\* as an error value, at build time; no such failure is raised while a
\* request is handled.
C22_CompileFailureIsErrorValue ==
    /\ (cres # "pending" /\ RegexCompileFails(RegexFromPathSpec(cpath)))
        => cres = "error"
    /\ mres # "Panic"
    /\ mres # "pending" => cres = "built"

----------------------------------------------------------------------------
(* PathAndQuerySpec::parse against the pattern grammar (specification      *)
(* SpecParse)                                                              *)

\* the part of a pattern before its first `?`, and the part after it
PathPartOf(s) == SubSeq(s, 1, IndexFrom(s, "?", 1) - 1)
HasQueryPart(s) == IndexFrom(s, "?", 1) <= Len(s)
QueryPartOf(s) == SubSeq(s, IndexFrom(s, "?", 1) + 1, Len(s))

\* the segments of the path part: what follows each `/`; none for `/`
SegmentsOf(s) ==
    IF PathPartOf(s) = <<"/">> \/ PathPartOf(s) = <<>> THEN <<>>
    ELSE Tail(SplitOn(PathPartOf(s), "/"))

\* the forms of a segment: `{name+}`, `{name}`, and a literal, which neither
\* starts with `{` nor ends with `}`
IsGreedyForm(x) ==
    Len(x) >= 3 /\ x[1] = "{" /\ x[Len(x)] = "}" /\ x[Len(x) - 1] = "+"
IsLabelForm(x) ==
    Len(x) >= 2 /\ x[1] = "{" /\ x[Len(x)] = "}" /\ x[Len(x) - 1] # "+"
IsLiteralForm(x) == x # <<>> /\ x[1] # "{" /\ x[Len(x)] # "}"

\* the pattern conforms to the grammar
ConformsToGrammar(s) ==
    /\ s # <<>> /\ s[1] = "/"
    /\ ~Contains(s, "#") /\ ~Contains(s, ".")
    /\ \A i \in DOMAIN SegmentsOf(s) :
        LET x == SegmentsOf(s)[i]
        IN  IsGreedyForm(x) \/ IsLabelForm(x) \/ IsLiteralForm(x)
    /\ HasQueryPart(s) => QueryPartOf(s) # <<>>

SetOf(seq) == {seq[i] : i \in DOMAIN seq}

\* C23: parse succeeds on every pattern that conforms to the grammar, and
\* what it returns depends on the pattern alone: every parse of the same
\* pattern gives the same path segments and the same set of query
\* constraints.
C23_ParseSucceedsOnGrammar ==
    (pres # ParsePending /\ ConformsToGrammar(ppat))
    => /\ pres.err = "None"
       /\ \A r \in ParseOutcomes(ppat) :
            /\ r.err = "None"
            /\ r.path_segments = pres.path_segments
            /\ SetOf(r.query_segments) = SetOf(pres.query_segments)

\* the validation rules a pattern violates, each named by its error
ViolatedRules(s) ==
    LET segs == SegmentsOf(s)
    IN  {rule \in {"DoesNotStartWithForwardSlash", "EndsWithQuestionMark",
                   "ContainsFragment", "ContainsDotSegment",
                   "ContainsEmptyPathSegment", "UnclosedLabel", "UnopenedLabel"} :
            CASE rule = "DoesNotStartWithForwardSlash" -> s = <<>> \/ s[1] # "/"
              [] rule = "EndsWithQuestionMark" -> s # <<>> /\ s[Len(s)] = "?"
              [] rule = "ContainsFragment" -> Contains(s, "#")
              [] rule = "ContainsDotSegment" -> Contains(s, ".")
              [] rule = "ContainsEmptyPathSegment" ->
                    \E i \in DOMAIN segs : segs[i] = <<>>
              [] rule = "UnclosedLabel" ->
                    \E i \in DOMAIN segs :
                        segs[i] # <<>> /\ segs[i][1] = "{" /\ segs[i][Len(segs[i])] # "}"
              [] rule = "UnopenedLabel" ->
                    \E i \in DOMAIN segs :
                        segs[i] # <<>> /\ segs[i][1] # "{" /\ segs[i][Len(segs[i])] = "}"}

\* the first segment of the pattern that violates the rule
FirstBadSegment(s, rule) ==
    LET segs == SegmentsOf(s)
        bad == {i \in DOMAIN segs :
                    /\ segs[i] # <<>>
                    /\ IF rule = "UnclosedLabel"
                       THEN segs[i][1] = "{" /\ segs[i][Len(segs[i])] # "}"
                       ELSE segs[i][1] # "{" /\ segs[i][Len(segs[i])] = "}"}
    IN  segs[CHOOSE i \in bad : \A j \in bad : i <= j]

\* C24: on a pattern that violates exactly one validation rule, parse fails
\* with that rule's error, UnclosedLabel and UnopenedLabel carrying the text
\* of the segment.
C24_OneRuleOneError ==
    (pres # ParsePending /\ Cardinality(ViolatedRules(ppat)) = 1)
    => \E rule \in ViolatedRules(ppat) :
        /\ pres.err = rule
        /\ rule \in {"UnclosedLabel", "UnopenedLabel"}
            => pres.arg = FirstBadSegment(ppat, rule)

\* C24's case: parse of /a/{a has failed with UnclosedLabel("{a")
C24_Witness ==
    /\ ppat = <<"/", "a", "/", "{", "a">>
    /\ pres.err = "UnclosedLabel"
    /\ pres.arg = <<"{", "a">>

\* C25: parse classifies each segment of an accepted pattern by its form:
\* Greedy exactly for `{name+}`, Label exactly for `{name}`, and Literal with
\* the segment's own text for every other segment; the PathSpec has one
\* PathSegment for each segment of the pattern, in the pattern's order.
C25_SegmentsClassifiedByForm ==
    pres.err = "None"
    => LET segs == SegmentsOf(ppat)
       IN  /\ Len(pres.path_segments) = Len(segs)
           /\ \A i \in DOMAIN segs :
                /\ pres.path_segments[i] = Greedy <=> IsGreedyForm(segs[i])
                /\ pres.path_segments[i] = Label <=> IsLabelForm(segs[i])
                /\ (~IsGreedyForm(segs[i]) /\ ~IsLabelForm(segs[i]))
                    => pres.path_segments[i] = Literal(segs[i])

\* C25's case: parse of /a{a/{a}/{a+} has returned Literal, Label, Greedy
C25_Witness ==
    /\ ppat = <<"/", "a", "{", "a", "/", "{", "a", "}", "/", "{", "a", "+", "}">>
    /\ pres.err = "None"
    /\ pres.path_segments = <<Literal(<<"a", "{", "a">>), Label, Greedy>>

----------------------------------------------------------------------------
(* RequestSpec::always_get (specification SpecAlways)                      *)

\* C26: always_get() matches every request path and never faults: its
\* verdict is Yes for a GET request and MethodNotAllowed for a request with
\* any other method, whatever the path and the query; it is never No.
C26_AlwaysGetMatchesEveryPath ==
    (mres # "pending" /\ mspec = AlwaysGet)
    => mres = IF mreq.method = "GET" THEN "Yes" ELSE "MethodNotAllowed"

\* C26's case: always_get() has answered Yes for GET /a with a query, and
\* MethodNotAllowed is its answer for other methods
C26_Witness ==
    /\ mspec = AlwaysGet
    /\ mreq.path = <<"/", "a">>
    /\ mreq.query.present
    /\ mreq.method = "GET"
    /\ mres = "Yes"

----------------------------------------------------------------------------
(* The Router of the operation registry (specification SpecRegistry)       *)

\* GET /path/to/<label>/healthcheck with one non-empty label
IsHealthCheckExample(req) ==
    LET cs == ComponentsOf(req.path)
    IN  /\ req.method = "GET"
        /\ Len(cs) = 4
        /\ cs[1] = <<"p", "a", "t", "h">> /\ cs[2] = <<"t", "o">>
        /\ cs[3] # <<>>
        /\ cs[4] = <<"h", "e", "a", "l", "t", "h", "c", "h", "e", "c", "k">>

\* POST /register-service/gre/ee/dy/suffix?key&foo=bar
IsRegisterServiceExample(req) ==
    /\ req.method = "POST"
    /\ req.path = PathOfComponents(<<<<"r", "e", "g", "i", "s", "t", "e", "r", "-", "s", "e", "r", "v", "i", "c", "e">>, <<"g", "r", "e">>, <<"e", "e">>, <<"d", "y">>, <<"s", "u", "f", "f", "i", "x">>>>)
    /\ req.query = SomeQuery(<<"k", "e", "y", "&", "f", "o", "o", "=", "b", "a", "r">>)

\* the dispatch has handed its request to the Route of the operation svc
DispatchedTo(d, svc) ==
    /\ d.route # NoRoute
    /\ routes[d.route].service = svc

\* C27: the Router built from the operation registry routes the documented
\* examples to their operations: GET /path/to/<label>/healthcheck gets Yes
\* from the health_check spec and is dispatched to health_check, POST
\* /register-service/gre/ee/dy/suffix?key&foo=bar gets Yes from the
\* register_service spec and is dispatched to register_service, and no
\* request gets Yes from both specs.
C27_RegistryRoutesExamples ==
    \A t \in Tasks :
        LET d == disp[t]
        IN  d.pc # "idle"
            => /\ IsHealthCheckExample(d.req)
                    => /\ Matches(HealthCheckSpec, d.req) = "Yes"
                       /\ DispatchedTo(d, "health_check")
               /\ IsRegisterServiceExample(d.req)
                    => /\ Matches(RegisterServiceSpec, d.req) = "Yes"
                       /\ DispatchedTo(d, "register_service")
               /\ ~( /\ Matches(HealthCheckSpec, d.req) = "Yes"
                     /\ Matches(RegisterServiceSpec, d.req) = "Yes" )

----------------------------------------------------------------------------
(* RouteIds of Routers built concurrently (specification SpecBuild)        *)

\* the RouteIds a thread holds: the keys of its Router and the id of a
\* route call under way
IdsOf(w) == DOMAIN w.routes \cup (IF w.pc = "insert" THEN {w.id} ELSE {})

\* C28: every successful Router::route call adds exactly one new Route and
\* replaces none: the ids RouteId::next returns are pairwise distinct, also
\* across threads that build different Routers concurrently, so a Router
\* built by N route calls holds N Routes.
C28_RouteIdsDistinct ==
    /\ [](\A b \in Threads :
            /\ Cardinality(DOMAIN builders[b].routes) = builders[b].calls
            /\ builders[b].pc = "insert" => builders[b].id \notin DOMAIN builders[b].routes)
    /\ [](\A b, c \in Threads : b # c => IdsOf(builders[b]) \cap IdsOf(builders[c]) = {})
    /\ [][\A b \in Threads : \A id \in DOMAIN builders[b].routes :
            /\ id \in DOMAIN builders'[b].routes
            /\ builders'[b].routes[id] = builders[b].routes[id]]_vars

\* C28's case: two threads have each built a Router by MaxRouteCalls route
\* calls, their calls interleaved
C28_Witness ==
    /\ \A b \in Threads :
        /\ builders[b].pc = "idle"
        /\ builders[b].calls = MaxRouteCalls
    /\ \E b, c \in Threads :
        \E i, k \in DOMAIN builders[b].routes, j \in DOMAIN builders[c].routes :
            b # c /\ i < j /\ j < k

----------------------------------------------------------------------------
(* The empty PathSpec (specification SpecMatch)                            *)

\* C29: a RequestSpec built from the empty PathSpec, which is what parse
\* returns for the pattern `/`, passes the path step for every request
\* path, not for `/` alone: with no query constraints its verdict is Yes for
\* every request with the declared method and MethodNotAllowed for every
\* other request.
C29_EmptyPathSpecMatchesEveryPath ==
    /\ \A r \in ParseOutcomes(<<"/">>) : r.err = "None" /\ r.path_segments = <<>>
    /\ (mres # "pending" /\ mspec.path_segments = <<>>
            /\ mspec.host_prefix = NoHostPrefix)
        => /\ IsMatch(mspec.uri_path_regex, mreq.path)
           /\ mspec.query_segments = <<>>
                => mres = IF mreq.method = mspec.method THEN "Yes"
                          ELSE "MethodNotAllowed"

\* C29's case: the RequestSpec of the empty PathSpec has answered Yes for the
\* path /a
C29_Witness ==
    /\ mspec.path_segments = <<>>
    /\ mspec.query_segments = <<>>
    /\ mreq.path = <<"/", "a">>
    /\ mres = "Yes"

----------------------------------------------------------------------------
(* Repeated and unnamed query keys (specification SpecRepeat)              *)

\* the keys the spec's query constraints name
NamedKeys(spec) == {spec.query_segments[i].key : i \in DOMAIN spec.query_segments}

\* the query string without the pieces whose key no constraint names
WithoutUnnamed(spec, text) ==
    JoinPieces(SelectSeq(SplitOn(text, "&"),
                         LAMBDA piece : PairOf(piece).name \in NamedKeys(spec)))

\* the spec `/a?k=v` with method m
RepeatExampleSpec(m) ==
    NewRequestSpec(m, NoHostPrefix, <<Literal(<<"a">>)>>, <<KeyValue(<<"k">>, <<"v">>)>>)

\* C30: when the query string repeats a key, a KeyValue constraint is
\* compared with the key's last occurrence only: with path and method
\* matching, `?k=v&k=o` yields No and `?k=o&k=v` yields Yes; and the keys no
\* constraint names never change the verdict.
C30_LastOccurrenceAndUnnamedKeys ==
    mres # "pending"
    => /\ (mspec = RepeatExampleSpec(mreq.method)
            /\ mreq.query.text = <<"k", "=", "v", "&", "k", "=", "o">>) => mres = "No"
       /\ (mspec = RepeatExampleSpec(mreq.method)
            /\ mreq.query.text = <<"k", "=", "o", "&", "k", "=", "v">>) => mres = "Yes"
       /\ mres = Matches(mspec,
                    [mreq EXCEPT !.query.text = WithoutUnnamed(mspec, mreq.query.text)])

====
